---- MODULE Spec2Model ----
(***************************************************************************)
(* A model of brewtools: the runnings blend planner (runnings.py), its      *)
(* earlier variant (gravity.py), the Gravity value type and its text       *)
(* parser, and the Mass / Volume unit parsers (units.py).                  *)
(*                                                                         *)
(* Python floats are modelled as exact rationals <<n, d>> (d > 0, lowest   *)
(* terms), so equality of two numbers is equality of the tuples.  None is  *)
(* the empty tuple.                                                         *)
(***************************************************************************)
EXTENDS Integers, Sequences, FiniteSets, TLC

VARIABLES
    given,   \* runnings.py: the command line as argparse parsed it
    args,    \* runnings.py: the args namespace (validate mutates it)
    pc,      \* runnings.py: "parse_args" | "main" | "done" | "idle"
    out,     \* runnings.py: what parse_args / main ended with
    gin,     \* Gravity: the call (op, text, correction, num)
    gout,    \* Gravity: the result of the call
    gpc,     \* Gravity: "call" | "done" | "idle"
    uin,     \* Mass / Volume: the call (cls, tokens, text)
    uout,    \* Mass / Volume: the result of from_text
    upc,     \* Mass / Volume: "call" | "done" | "idle"
    eargs,   \* gravity.py: the args namespace (validate mutates it)
    epc,     \* gravity.py: "parse_args" | "main" | "done" | "idle"
    eout     \* gravity.py: what parse_args / main ended with

vars == <<given, args, pc, out, gin, gout, gpc, uin, uout, upc, eargs, epc, eout>>
runVars == <<given, args, pc, out>>
gravVars == <<gin, gout, gpc>>
unitVars == <<uin, uout, upc>>
earlyVars == <<eargs, epc, eout>>

(***************************************************************************)
(* Exact rational arithmetic.                                              *)
(***************************************************************************)
None == <<>>

Abs(x) == IF x < 0 THEN -x ELSE x

RECURSIVE GCD(_, _)
GCD(a, b) == IF b = 0 THEN a ELSE GCD(b, a % b)

Norm(n, d) ==
    LET g == GCD(Abs(n), Abs(d))
        s == IF d < 0 THEN -1 ELSE 1
    IN  <<(s * n) \div g, (s * d) \div g>>

R(n) == <<n, 1>>
Zero == R(0)
One == R(1)
RAdd(a, b) == Norm(a[1] * b[2] + b[1] * a[2], a[2] * b[2])
RSub(a, b) == Norm(a[1] * b[2] - b[1] * a[2], a[2] * b[2])
RMul(a, b) == Norm(a[1] * b[1], a[2] * b[2])
\* only used where the divisor was checked to be non-zero
RDiv(a, b) == Norm(a[1] * b[2], a[2] * b[1])
RLt(a, b) == a[1] * b[2] < b[1] * a[2]
RLe(a, b) == a[1] * b[2] <= b[1] * a[2]

\* Python truthiness of an optional float: None and 0.0 are falsy
Truthy(x) == x # None /\ x # Zero

RECURSIVE SumSeq(_)
SumSeq(s) == IF s = <<>> THEN Zero ELSE RAdd(SumSeq(SubSeq(s, 1, Len(s) - 1)), s[Len(s)])

\* itertools.accumulate: the running sums of s
Accumulate(s) == [i \in 1..Len(s) |-> SumSeq(SubSeq(s, 1, i))]

\* Python indexing and slicing of a list, negative indices counted from the end
PyIndex(s, i) == IF i < 0 THEN s[Len(s) + i + 1] ELSE s[i + 1]
PySliceTo(s, i) ==
    IF i < 0
    THEN SubSeq(s, 1, IF Len(s) + i < 0 THEN 0 ELSE Len(s) + i)
    ELSE SubSeq(s, 1, IF i > Len(s) THEN Len(s) ELSE i)

(***************************************************************************)
(* units.py: Gravity.  A Gravity object is its specific_gravity.           *)
(***************************************************************************)
Gravity(gravity) == RAdd(One, RDiv(gravity, R(1000)))

gravity_pts(g) == RMul(RSub(g, One), R(1000))

brix(g) == RDiv(gravity_pts(g), R(4))

from_brix(b) == Gravity(RMul(b, R(4)))

InSgWindow(sg) == RLt(One, sg) /\ RLt(sg, <<6, 5>>)

from_sg_unshifted(sg) == Gravity(IF InSgWindow(sg) THEN RMul(sg, R(1000)) ELSE sg)
from_sg(sg) == Gravity(IF InSgWindow(sg) THEN RMul(RSub(sg, One), R(1000)) ELSE sg)

corrected(x) == RDiv(x, <<26, 25>>)

GravityLt(a, b) == RLt(a, b)

(***************************************************************************)
(* runnings.py                                                             *)
(***************************************************************************)
MaxLots == 2

LotVolumes == {R(-1), R(0), R(1), R(2)}
LotGravities == {from_sg(R(0)), from_brix(<<5, 2>>), from_brix(R(5))}
Targets == {from_sg(R(0)), from_brix(<<5, 2>>)}
PreboilInputs == {None, R(0), <<1, 2>>, R(5)}
FinalInputs == {None, R(0), R(4)}
BoiloffRates == {R(-1), R(0), R(1)}
BoilDurations == {R(30), R(60)}
ShrinkagePcts == {R(0), R(4), R(100)}

WortData(volume, gravity) == [volume |-> volume, gravity |-> gravity]

Lots == {WortData(v, g) : v \in LotVolumes, g \in LotGravities}
LotLists == UNION {[1..n -> Lots] : n \in 1..MaxLots}

NoOut == [stage |-> "none", outcome |-> "none"]

\* validate(args): the namespace after the call, or the error it raises
validate(a) ==
    LET boiloff == RDiv(RMul(a.boiloff_rate, a.boil_duration), R(60))
        shrinkage_factor == RSub(One, RDiv(a.shrinkage_pct, R(100)))
    IN  IF Truthy(a.preboil_volume) /\ Truthy(a.final_volume)
        THEN IF RMul(RSub(a.preboil_volume, boiloff), shrinkage_factor) # a.final_volume
             THEN [error |-> "ValueError: do not agree", args |-> a]
             ELSE [error |-> "", args |-> a]
        ELSE IF Truthy(a.preboil_volume)
        THEN [error |-> "",
              args |-> [a EXCEPT !.final_volume =
                          RMul(RSub(a.preboil_volume, boiloff), shrinkage_factor)]]
        ELSE IF Truthy(a.final_volume)
        THEN IF shrinkage_factor = Zero
             THEN [error |-> "ZeroDivisionError", args |-> a]
             ELSE [error |-> "",
                   args |-> [a EXCEPT !.preboil_volume =
                               RAdd(RDiv(a.final_volume, shrinkage_factor), boiloff)]]
        ELSE [error |-> "ValueError: must be supplied", args |-> a]

\* list.sort(key=attrgetter('gravity'), reverse=True): stable, descending
RECURSIVE InsertDesc(_, _)
InsertDesc(sorted, w) ==
    IF sorted = <<>> THEN <<w>>
    ELSE IF GravityLt(sorted[Len(sorted)].gravity, w.gravity)
         THEN Append(InsertDesc(SubSeq(sorted, 1, Len(sorted) - 1), w), sorted[Len(sorted)])
         ELSE Append(sorted, w)

RECURSIVE SortDesc(_)
SortDesc(s) ==
    IF s = <<>> THEN <<>>
    ELSE InsertDesc(SortDesc(SubSeq(s, 1, Len(s) - 1)), s[Len(s)])

Ordered(a) == IF a.unsorted THEN a.runnings ELSE SortDesc(a.runnings)

\* total_sugars, total_volumes: the prefix sums, led by 0
TotalSugars(runnings) ==
    <<Zero>> \o Accumulate([i \in 1..Len(runnings) |->
                 RMul(gravity_pts(runnings[i].gravity), runnings[i].volume)])

TotalVolumes(runnings) ==
    <<Zero>> \o Accumulate([i \in 1..Len(runnings) |-> runnings[i].volume])

NeededSugar(a) == RMul(gravity_pts(a.target_OG), a.final_volume)

NotEnoughSugar(total_sugars, needed_sugar) ==
    RLt(total_sugars[Len(total_sugars)], needed_sugar)

\* next(filter(lambda t: t >= needed_sugar, total_sugars)), then
\* total_sugars.index(that value) - 1.  Both are 0-based Python indices.
Crosses(t, needed_sugar) == RLe(needed_sugar, t)

LastRunning(total_sugars, needed_sugar) ==
    LET first == CHOOSE i \in 1..Len(total_sugars) :
                    /\ Crosses(total_sugars[i], needed_sugar)
                    /\ \A j \in 1..(i - 1) : ~Crosses(total_sugars[j], needed_sugar)
        value == total_sugars[first]
        index == CHOOSE i \in 1..Len(total_sugars) :
                    /\ total_sugars[i] = value
                    /\ \A j \in 1..(i - 1) : total_sugars[j] # value
    IN  (index - 1) - 1

FractionDenominatorWhole(total_sugars, last_running) ==
    PyIndex(total_sugars, last_running + 1)
FractionDenominator(total_sugars, last_running) ==
    RSub(PyIndex(total_sugars, last_running + 1), PyIndex(total_sugars, last_running))

TooMuchVolume(running_volume, preboil_volume) == RLt(preboil_volume, running_volume)

\* main() after parse_args returned: the report it ends with
MainResult(a) ==
    LET runnings == Ordered(a)
        total_sugars == TotalSugars(runnings)
        total_volumes == TotalVolumes(runnings)
        needed_sugar == NeededSugar(a)
            IN  IF a.preboil_volume = Zero
        THEN [stage |-> "main", outcome |-> "ZeroDivisionError", at |-> "preboil_gravity", runnings |-> runnings,
              total_sugars |-> total_sugars, needed_sugar |-> needed_sugar]
        ELSE IF NotEnoughSugar(total_sugars, needed_sugar)
        THEN IF gravity_pts(a.target_OG) = Zero
             THEN [stage |-> "main", outcome |-> "ZeroDivisionError", at |-> "batch_size", runnings |-> runnings,
                   total_sugars |-> total_sugars, needed_sugar |-> needed_sugar]
             ELSE [stage |-> "main", outcome |-> "not enough sugar", runnings |-> runnings,
                   total_sugars |-> total_sugars, needed_sugar |-> needed_sugar,
                   batch_size |-> RDiv(total_sugars[Len(total_sugars)],
                                       gravity_pts(a.target_OG))]
        ELSE
        LET last_running == LastRunning(total_sugars, needed_sugar)
            denominator == FractionDenominator(total_sugars, last_running)
        IN  IF denominator = Zero
            THEN [stage |-> "main", outcome |-> "ZeroDivisionError", at |-> "last_running_fraction",
                  runnings |-> runnings, total_sugars |-> total_sugars,
                  needed_sugar |-> needed_sugar, last_running |-> last_running]
            ELSE
            LET last_running_fraction ==
                    RDiv(RSub(needed_sugar, PyIndex(total_sugars, last_running)), denominator)
                last_running_volume ==
                    RMul(last_running_fraction, PyIndex(runnings, last_running).volume)
                running_volume ==
                    RAdd(PyIndex(total_volumes, last_running), last_running_volume)
            IN  IF TooMuchVolume(running_volume, a.preboil_volume)
                THEN IF a.boiloff_rate = Zero
                     THEN [stage |-> "main", outcome |-> "ZeroDivisionError", at |-> "extra_boil",
                           runnings |-> runnings, total_sugars |-> total_sugars,
                           needed_sugar |-> needed_sugar, last_running |-> last_running,
                           running_volume |-> running_volume]
                     ELSE
                     LET excess_volume == RSub(running_volume, a.preboil_volume)
                         extra_boil == RMul(RDiv(excess_volume, a.boiloff_rate), R(60))
                     IN  [stage |-> "main", outcome |-> "boil time", runnings |-> runnings,
                          total_sugars |-> total_sugars, needed_sugar |-> needed_sugar,
                          last_running |-> last_running, running_volume |-> running_volume,
                          extra_boil |-> extra_boil,
                          new_boil |-> RAdd(a.boil_duration, extra_boil)]
                ELSE
                LET volumes ==
                        [i \in 1..Len(PySliceTo(runnings, last_running)) |->
                            PySliceTo(runnings, last_running)[i].volume]
                        \o <<last_running_volume>>
                    boiloff == RDiv(RMul(a.boiloff_rate, a.boil_duration), R(60))
                    shrinkage == RSub(One, RDiv(a.shrinkage_pct, R(100)))
                IN  [stage |-> "main", outcome |-> "plan", runnings |-> runnings,
                     total_sugars |-> total_sugars, needed_sugar |-> needed_sugar,
                     last_running |-> last_running, running_volume |-> running_volume,
                     volumes |-> volumes,
                     topoff_water |-> RSub(a.preboil_volume, SumSeq(volumes)),
                     boil_start |-> a.preboil_volume,
                     boil_end |-> RMul(RSub(a.preboil_volume, boiloff), shrinkage)]

RunInit ==
    /\ given \in [runnings : LotLists, target_OG : Targets,
                  preboil_volume : PreboilInputs, final_volume : FinalInputs,
                  boiloff_rate : BoiloffRates, boil_duration : BoilDurations,
                  shrinkage_pct : ShrinkagePcts, unsorted : BOOLEAN]
    /\ args = given
    /\ pc = "parse_args"
    /\ out = NoOut
    /\ gin = None /\ gout = None /\ gpc = "idle"
    /\ uin = None /\ uout = None /\ upc = "idle"
    /\ eargs = None /\ epc = "idle" /\ eout = NoOut

\* parse_args(): argparse has filled args; validate(args) checks and completes it
ParseArgs ==
    /\ pc = "parse_args"
    /\ LET v == validate(args)
       IN  IF v.error = ""
           THEN /\ args' = v.args
                /\ pc' = "main"
                /\ out' = out
           ELSE /\ args' = args
                /\ pc' = "done"
                /\ out' = [stage |-> "validate", outcome |-> v.error]
    /\ UNCHANGED <<given, gravVars, unitVars, earlyVars>>

\* main(): sort, feasibility check, interpolation, capacity check, report
Main ==
    /\ pc = "main"
    /\ out' = MainResult(args)
    /\ args' = [args EXCEPT !.runnings = Ordered(args)]
    /\ pc' = "done"
    /\ UNCHANGED <<given, gravVars, unitVars, earlyVars>>

RunNext == ParseArgs \/ Main

SpecRunnings == RunInit /\ [][RunNext]_vars

(***************************************************************************)
(* Text.  A text is a sequence of one-character strings.                   *)
(***************************************************************************)
Digits == <<"0", "1", "2", "3", "4", "5", "6", "7", "8", "9">>
IsDigit(c) == c \in {"0", "1", "2", "3", "4", "5", "6", "7", "8", "9"}
DigitVal(c) == (CHOOSE d \in 1..10 : Digits[d] = c) - 1
AllDigits(t) == \A i \in 1..Len(t) : IsDigit(t[i])

RECURSIVE Pow10(_)
Pow10(n) == IF n = 0 THEN 1 ELSE 10 * Pow10(n - 1)

RECURSIVE IntOf(_)
IntOf(t) == IF t = <<>> THEN 0 ELSE 10 * IntOf(SubSeq(t, 1, Len(t) - 1)) + DigitVal(t[Len(t)])

IndexOf(t, cs) ==
    IF \E i \in 1..Len(t) : t[i] \in cs
    THEN CHOOSE i \in 1..Len(t) : t[i] \in cs /\ \A j \in 1..(i - 1) : t[j] \notin cs
    ELSE 0

\* float(text) for the texts the regexes hand it:
\* digits, an optional "." and digits, an optional exponent
Float(t) ==
    LET e == IndexOf(t, {"e", "E"})
        mant == IF e = 0 THEN t ELSE SubSeq(t, 1, e - 1)
        expo == IF e = 0 THEN <<>> ELSE SubSeq(t, e + 1, Len(t))
        dot == IndexOf(mant, {"."})
        whole == IF dot = 0 THEN mant ELSE SubSeq(mant, 1, dot - 1)
        frac == IF dot = 0 THEN <<>> ELSE SubSeq(mant, dot + 1, Len(mant))
        m == Norm(IntOf(whole \o frac), Pow10(Len(frac)))
        signed == expo # <<>> /\ expo[1] \in {"+", "-"}
        x == IntOf(IF signed THEN Tail(expo) ELSE expo)
    IN  IF expo # <<>> /\ expo[1] = "-"
        THEN RDiv(m, R(Pow10(x)))
        ELSE RMul(m, R(Pow10(x)))

\* str.lower() on the letters that occur
Lower(t) == [i \in 1..Len(t) |-> CASE t[i] = "C" -> "c" [] t[i] = "U" -> "u"
                                   [] t[i] = "E" -> "e" [] OTHER -> t[i]]

(***************************************************************************)
(* units.py: Gravity.from_text (gravity.py: readinginputparser)            *)
(***************************************************************************)
\* the quantity group: one digit, then optionally "." and digits
QuantityEnds(t) ==
    {n \in 1..Len(t) :
        /\ IsDigit(t[1])
        /\ \/ n = 1
           \/ /\ n >= 3
              /\ t[2] = "."
              /\ AllDigits(SubSeq(t, 3, n))}

\* the character class [c|u]
CorrectionClass == {"c", "|", "u"}

\* "$": the end of the text, or just before a newline that ends it
AtEnd(t, n) == n = Len(t) \/ (n = Len(t) - 1 /\ t[Len(t)] = "\n")

\* re.match(grav_regex, text): the (end of quantity, end of correction) pairs
\* that match, the regex's greedy choice among them first
GravMatches(t) ==
    {m \in QuantityEnds(t) \X (1..Len(t)) :
        /\ \/ m[2] = m[1]
           \/ m[2] = m[1] + 1 /\ t[m[2]] \in CorrectionClass
        /\ AtEnd(t, m[2])}

GravMatch(t) ==
    CHOOSE m \in GravMatches(t) :
        \A o \in GravMatches(t) : o[1] < m[1] \/ (o[1] = m[1] /\ o[2] <= m[2])

from_text(text, correction) ==
    LET t == Lower(text)
    IN  IF GravMatches(t) = {}
        THEN [error |-> "ValueError"]
        ELSE
        LET m == GravMatch(t)
            quantity == SubSeq(t, 1, m[1])
            gravity_quantity == Float(quantity)
            gravity_correction == IF m[2] > m[1] THEN t[m[2]] ELSE correction
            gravity == IF RLt(gravity_quantity, <<3, 2>>)
                       THEN from_sg(gravity_quantity)
                       ELSE from_brix(gravity_quantity)
        IN  [error |-> "", quantity |-> quantity, correction |-> gravity_correction,
             gravity |-> IF gravity_correction = "u"
                         THEN from_sg(corrected(gravity_pts(gravity)))
                         ELSE gravity]

MaxTextLen == 4

GravAlphabet == {"0", "1", "2", "5", ".", "c", "u", "C", "|", "x", "\n"}
GravTexts == UNION {[1..n -> GravAlphabet] : n \in 0..MaxTextLen}
Corrections == {"c", "u"}
SgInputs == {R(0), <<1, 2>>, R(1), <<1001, 1000>>, <<21, 20>>, <<11, 10>>,
             <<6, 5>>, <<5, 4>>, R(2), R(40)}
BrixInputs == {R(0), <<5, 2>>, <<25, 2>>, R(18)}

GravInit ==
    /\ gin \in [op : {"from_text"}, text : GravTexts, correction : Corrections]
               \cup [op : {"from_sg", "from_brix"}, num : SgInputs \cup BrixInputs]
    /\ gout = None
    /\ gpc = "call"
    /\ given = None /\ args = None /\ pc = "idle" /\ out = NoOut
    /\ uin = None /\ uout = None /\ upc = "idle"
    /\ eargs = None /\ epc = "idle" /\ eout = NoOut

FromText ==
    /\ gpc = "call"
    /\ gin.op = "from_text"
    /\ gout' = from_text(gin.text, gin.correction)
    /\ gpc' = "done"
    /\ UNCHANGED <<gin, runVars, unitVars, earlyVars>>

FromSg ==
    /\ gpc = "call"
    /\ gin.op = "from_sg"
    /\ gout' = [error |-> "", gravity |-> from_sg(gin.num)]
    /\ gpc' = "done"
    /\ UNCHANGED <<gin, runVars, unitVars, earlyVars>>

FromBrix ==
    /\ gpc = "call"
    /\ gin.op = "from_brix"
    /\ gout' = [error |-> "", gravity |-> from_brix(gin.num)]
    /\ gpc' = "done"
    /\ UNCHANGED <<gin, runVars, unitVars, earlyVars>>

GravNext == FromText \/ FromSg \/ FromBrix

SpecGravity == GravInit /\ [][GravNext]_vars

(***************************************************************************)
(* units.py: Mass and Volume.  A Mass is its grams, a Volume its liters.   *)
(* Their range (micrograms to megagrams) is wider than a quotient of two   *)
(* machine integers, so a magnitude is a mixed number <<i, n, d>> = i + n/d *)
(* with 0 <= n < d in lowest terms: equal magnitudes are equal tuples.     *)
(***************************************************************************)
MZero == <<0, 0, 1>>

\* the mixed number of N / D, for N >= 0 and D > 0
Mixed(N, D) ==
    LET r == N % D
        g == GCD(r, D)
    IN  <<N \div D, r \div g, D \div g>>

MAdd(x, y) ==
    LET g == GCD(x[3], y[3])
        l == (x[3] \div g) * y[3]
        sum == x[2] * (l \div x[3]) + y[2] * (l \div y[3])
        f == Mixed(sum, l)
    IN  <<x[1] + y[1] + f[1], f[2], f[3]>>

\* quantity * unit.value, both rationals, cancelled before multiplied
MProduct(q, v) ==
    LET g1 == GCD(q[1], v[2])
        g2 == GCD(v[1], q[2])
    IN  Mixed((q[1] \div g1) * (v[1] \div g2), (q[2] \div g2) * (v[2] \div g1))

RECURSIVE MSum(_)
MSum(s) == IF s = <<>> THEN MZero ELSE MAdd(MSum(SubSeq(s, 1, Len(s) - 1)), s[Len(s)])

LB_TO_G == <<453592, 1000>>
GAL_TO_L == <<378541, 100000>>

\* class Units(Enum): the value of each unit
MassUnits ==
    [MICROGRAMS |-> <<1, 1000000>>, MILLIGRAMS |-> <<1, 1000>>, GRAMS |-> R(1),
     KILOGRAMS |-> R(1000), MEGAGRAMS |-> R(1000000), POUNDS |-> Norm(LB_TO_G[1], LB_TO_G[2]),
     OUNCES |-> RDiv(LB_TO_G, R(12)), TONS |-> RMul(LB_TO_G, R(2000))]

VolumeUnits ==
    [MILLILITERS |-> <<1, 1000>>, LITERS |-> R(1), KILOLITERS |-> R(1000),
     GALLONS |-> Norm(GAL_TO_L[1], GAL_TO_L[2]), QUARTS |-> RDiv(GAL_TO_L, R(4)),
     PINTS |-> RDiv(GAL_TO_L, R(8)), CUPS |-> RDiv(GAL_TO_L, R(16)),
     OUNCES |-> RDiv(GAL_TO_L, R(128))]

\* prefixes: abbreviation -> unit, in the dict's insertion order
MassPrefixes ==
    << <<<<"u", "g">>, "MICROGRAMS">>, <<<<"m", "g">>, "MILLIGRAMS">>,
       <<<<"g">>, "GRAMS">>, <<<<"k", "g">>, "KILOGRAMS">>,
       <<<<"M", "g">>, "MEGAGRAMS">>, <<<<"l", "b">>, "POUNDS">>,
       <<<<"o", "z">>, "OUNCES">>, <<<<"t", "o", "n", "s">>, "TONS">> >>

VolumePrefixes ==
    << <<<<"m", "l">>, "MILLILITERS">>, <<<<"l">>, "LITERS">>,
       <<<<"k", "l">>, "KILOLITERS">>, <<<<"g">>, "GALLONS">>,
       <<<<"g", "a", "l">>, "GALLONS">>, <<<<"q">>, "QUARTS">>,
       <<<<"p">>, "PINTS">>, <<<<"c">>, "CUPS">>, <<<<"o", "z">>, "OUNCES">>,
       <<<<"f", "l", "o", "z">>, "OUNCES">> >>

Prefixes(cls) == IF cls = "Mass" THEN MassPrefixes ELSE VolumePrefixes
UnitValue(cls, unit) == IF cls = "Mass" THEN MassUnits[unit] ELSE VolumeUnits[unit]

\* cls.of(quantity, unit)
of(cls, quantity, unit) == MProduct(quantity, UnitValue(cls, unit))

\* (\d*\.)?\d+
IsMantissaOneDigit(m) ==
    LET dot == IndexOf(m, {"."})
    IN  IF dot = 0
        THEN Len(m) = 1 /\ AllDigits(m)
        ELSE /\ AllDigits(SubSeq(m, 1, dot - 1))
             /\ Len(m) = dot + 1
             /\ AllDigits(SubSeq(m, dot + 1, Len(m)))
IsMantissa(m) ==
    LET dot == IndexOf(m, {"."})
    IN  IF dot = 0
        THEN Len(m) >= 1 /\ AllDigits(m)
        ELSE /\ AllDigits(SubSeq(m, 1, dot - 1))
             /\ Len(m) > dot
             /\ AllDigits(SubSeq(m, dot + 1, Len(m)))

\* [-\+]?\d+?
IsExponent(x) ==
    LET digits == IF x # <<>> /\ x[1] \in {"+", "-"} THEN Tail(x) ELSE x
    IN  Len(digits) >= 1 /\ AllDigits(digits)

\* the quantity group: (\d*\.)?\d+([eE][-\+]?\d+?)?
IsQuantity(q) ==
    LET e == IndexOf(q, {"e", "E"})
    IN  IF e = 0
        THEN IsMantissa(q)
        ELSE IsMantissa(SubSeq(q, 1, e - 1)) /\ IsExponent(SubSeq(q, e + 1, Len(q)))

StartsWith(t, from, word) ==
    /\ from + Len(word) - 1 <= Len(t)
    /\ \A j \in 1..Len(word) : t[from + j - 1] = word[j]

\* the units group "ug|mg|g|...": the first alternative that matches at `from`
\* (0 when none does)
FirstAlternative(prefixes, t, from) ==
    LET hits == {k \in 1..Len(prefixes) : StartsWith(t, from, prefixes[k][1])}
    IN  IF hits = {} THEN 0 ELSE CHOOSE k \in hits : \A j \in hits : k <= j

\* the ends of the quantities that start at i and are followed by a unit
\* (a quantity starts with a digit or "."; no abbreviation starts with a digit)
QuantityEndsAt(prefixes, t, i) ==
    IF ~(IsDigit(t[i]) \/ t[i] = ".")
    THEN {}
    ELSE {e \in i..(Len(t) - 1) :
             /\ ~IsDigit(t[e + 1])
             /\ FirstAlternative(prefixes, t, e + 1) # 0
             /\ IsQuantity(SubSeq(t, i, e))}

\* the match of the finder that starts at i: greedy quantity, first unit
MatchAt(prefixes, t, i) ==
    LET ends == QuantityEndsAt(prefixes, t, i)
        e == CHOOSE x \in ends : \A y \in ends : y <= x
        k == FirstAlternative(prefixes, t, e + 1)
    IN  [quantity |-> SubSeq(t, i, e), units |-> prefixes[k][1],
         end |-> e + Len(prefixes[k][1])]

\* the scan of the finder from pos: the first start that has a match
\* (0 when the rest of the text has none)
RECURSIVE SearchFrom(_, _, _)
SearchFrom(prefixes, t, pos) ==
    IF pos > Len(t) THEN 0
    ELSE IF QuantityEndsAt(prefixes, t, pos) # {} THEN pos
    ELSE SearchFrom(prefixes, t, pos + 1)

\* re.finditer(finder, text): the non-overlapping matches, left to right
RECURSIVE FindIter(_, _, _)
FindIter(prefixes, t, pos) ==
    LET i == SearchFrom(prefixes, t, pos)
    IN  IF i = 0
        THEN <<>>
        ELSE LET m == MatchAt(prefixes, t, i)
             IN  <<m>> \o FindIter(prefixes, t, m.end + 1)

\* cls.prefixes[abbreviation]
UnitOf(cls, abbreviation) ==
    LET prefixes == Prefixes(cls)
    IN  prefixes[CHOOSE k \in 1..Len(prefixes) : prefixes[k][1] = abbreviation][2]

\* Mass.from_text / Volume.from_text
units_from_text(cls, text) ==
    LET found == FindIter(Prefixes(cls), text, 1)
        masses == [j \in 1..Len(found) |->
                      of(cls, Float(found[j].quantity), UnitOf(cls, found[j].units))]
    IN  IF masses = <<>>
        THEN [error |-> "ValueError"]
        ELSE [error |-> "", value |-> MSum(masses)]

MaxTokens == 2

QuantityTexts == {<<"1", "2">>, <<"2", ".", "5">>, <<".", "5">>,
                  <<"1", "e", "-", "1">>}
NoTokenTexts == {<<>>, <<"5", "x", "y", "z">>, <<"g">>, <<"5">>, <<"5", " ", "g">>,
                 <<".", "g">>, <<"o", "z", "5">>}

Abbreviations(cls) == {Prefixes(cls)[k][1] : k \in 1..Len(Prefixes(cls))}
Tokens(cls) == QuantityTexts \X Abbreviations(cls)

RECURSIVE TextOf(_)
TextOf(tokens) ==
    IF tokens = <<>> THEN <<>>
    ELSE TextOf(SubSeq(tokens, 1, Len(tokens) - 1))
            \o tokens[Len(tokens)][1] \o tokens[Len(tokens)][2]

UnitInit ==
    /\ \E c \in {"Mass", "Volume"} :
           \/ \E n \in 1..MaxTokens : \E ts \in [1..n -> Tokens(c)] :
                  uin = [cls |-> c, tokens |-> ts, text |-> TextOf(ts)]
           \/ \E t \in NoTokenTexts :
                  uin = [cls |-> c, tokens |-> <<>>, text |-> t]
    /\ uout = None
    /\ upc = "call"
    /\ given = None /\ args = None /\ pc = "idle" /\ out = NoOut
    /\ gin = None /\ gout = None /\ gpc = "idle"
    /\ eargs = None /\ epc = "idle" /\ eout = NoOut

MassFromText ==
    /\ upc = "call"
    /\ uin.cls = "Mass"
    /\ uout' = units_from_text("Mass", uin.text)
    /\ upc' = "done"
    /\ UNCHANGED <<uin, runVars, gravVars, earlyVars>>

VolumeFromText ==
    /\ upc = "call"
    /\ uin.cls = "Volume"
    /\ uout' = units_from_text("Volume", uin.text)
    /\ upc' = "done"
    /\ UNCHANGED <<uin, runVars, gravVars, earlyVars>>

UnitNext == MassFromText \/ VolumeFromText

SpecUnits == UnitInit /\ [][UnitNext]_vars

(***************************************************************************)
(* gravity.py: the earlier variant of the planner.  Its Gravity class is   *)
(* the one of units.py (same constructor, from_sg, gravity_pts, ordering). *)
(* SpecVariants runs both planners on one command line, runnings.py with   *)
(* shrinkage_pct = 0 and sorting enabled.                                  *)
(***************************************************************************)
\* a target of 1.1 gravity points (-o 1.0011c) next to the targets above
VariantTargets == Targets \cup {Gravity(<<11, 10>>)}

\* validate(args) of gravity.py: the namespace after the call, or the error
gravity_validate(a) ==
    LET boiloff == RDiv(RMul(a.boiloff_rate, a.boil_duration), R(60))
    IN  IF Truthy(a.preboil_volume) /\ Truthy(a.postboil_volume)
        THEN IF RSub(a.preboil_volume, boiloff) # a.postboil_volume
             THEN [error |-> "ValueError: do not agree", args |-> a]
             ELSE [error |-> "", args |-> a]
        ELSE IF Truthy(a.preboil_volume)
        THEN [error |-> "",
              args |-> [a EXCEPT !.postboil_volume = RSub(a.preboil_volume, boiloff)]]
        ELSE IF Truthy(a.postboil_volume)
        THEN [error |-> "",
              args |-> [a EXCEPT !.preboil_volume = RAdd(a.postboil_volume, boiloff)]]
        ELSE [error |-> "ValueError: must be supplied", args |-> a]

\* total_gravities: the prefix sums of gravity points x volume, led by 0
TotalGravities(runnings) ==
    <<Zero>> \o Accumulate([i \in 1..Len(runnings) |->
                 RMul(gravity_pts(runnings[i].gravity), runnings[i].volume)])

\* the filter of lines 123-128: Gravity.from_sg(t / preboil_volume) > preboil_gravity
Exceeds(t, preboil_volume, preboil_gravity) ==
    GravityLt(preboil_gravity, from_sg(RDiv(t, preboil_volume)))

\* filter(None, volumes): the volumes that are printed
RECURSIVE NonZero(_)
NonZero(volumes) ==
    IF volumes = <<>> THEN <<>>
    ELSE IF volumes[1] = Zero THEN NonZero(Tail(volumes))
    ELSE <<volumes[1]>> \o NonZero(Tail(volumes))

\* main() of gravity.py after parse_args returned: what it ends with
GravityMainResult(a) ==
    LET runnings == SortDesc(a.runnings)
        total_gravities == TotalGravities(runnings)
        n == Len(total_gravities)
    IN  IF a.preboil_volume = Zero
        THEN [stage |-> "main", outcome |-> "ZeroDivisionError", at |-> "preboil_gravity"]
        ELSE
        LET preboil_gravity ==
                from_sg(RDiv(RMul(gravity_pts(a.target_OG), a.postboil_volume),
                             a.preboil_volume))
            max_gravity == from_sg(RDiv(total_gravities[n], a.preboil_volume))
            exceeding == {i \in 1..n :
                             Exceeds(total_gravities[i], a.preboil_volume, preboil_gravity)}
        IN  IF GravityLt(max_gravity, preboil_gravity)
            THEN IF a.postboil_volume = Zero
                 THEN [stage |-> "main", outcome |-> "ZeroDivisionError",
                       at |-> "max possible gravity"]
                 ELSE [stage |-> "main", outcome |-> "ValueError: below target gravity"]
            ELSE IF exceeding = {}
            THEN [stage |-> "main", outcome |-> "StopIteration"]
            ELSE
            LET first == CHOOSE i \in exceeding : \A j \in exceeding : i <= j
                value == total_gravities[first]
                index == CHOOSE i \in 1..n :
                            /\ total_gravities[i] = value
                            /\ \A j \in 1..(i - 1) : total_gravities[j] # value
                last_running == index - 1
                divisor == gravity_pts(PyIndex(runnings, last_running - 1).gravity)
            IN  IF divisor = Zero
                THEN [stage |-> "main", outcome |-> "ZeroDivisionError", at |-> "u",
                      last_running |-> last_running]
                ELSE
                LET u == RDiv(RSub(RMul(gravity_pts(preboil_gravity), a.preboil_volume),
                                   PyIndex(total_gravities, last_running - 1)),
                              divisor)
                    head == PySliceTo(runnings, last_running - 1)
                    volumes == [i \in 1..Len(head) |-> head[i].volume]
                               \o <<u>>
                               \o [i \in 1..(Len(runnings) - last_running) |-> Zero]
                    water_volume == RSub(a.preboil_volume, SumSeq(volumes))
                IN  [stage |-> "main", outcome |-> "plan",
                     last_running |-> last_running, volumes |-> volumes,
                     shown |-> NonZero(volumes),
                     water_volume |-> water_volume,
                     topoff_printed |-> RLt(Zero, water_volume)]

VariantInit ==
    /\ given \in [runnings : LotLists, target_OG : VariantTargets,
                  preboil_volume : PreboilInputs, final_volume : FinalInputs,
                  boiloff_rate : BoiloffRates, boil_duration : BoilDurations,
                  shrinkage_pct : {Zero}, unsorted : {FALSE}]
    /\ args = given
    /\ pc = "parse_args"
    /\ out = NoOut
    /\ eargs = [runnings |-> given.runnings, target_OG |-> given.target_OG,
                preboil_volume |-> given.preboil_volume,
                postboil_volume |-> given.final_volume,
                boiloff_rate |-> given.boiloff_rate,
                boil_duration |-> given.boil_duration]
    /\ epc = "parse_args"
    /\ eout = NoOut
    /\ gin = None /\ gout = None /\ gpc = "idle"
    /\ uin = None /\ uout = None /\ upc = "idle"

\* parse_args() of gravity.py
GravityParseArgs ==
    /\ epc = "parse_args"
    /\ LET v == gravity_validate(eargs)
       IN  IF v.error = ""
           THEN /\ eargs' = v.args
                /\ epc' = "main"
                /\ eout' = eout
           ELSE /\ eargs' = eargs
                /\ epc' = "done"
                /\ eout' = [stage |-> "validate", outcome |-> v.error]
    /\ UNCHANGED <<runVars, gravVars, unitVars>>

\* main() of gravity.py: sort, feasibility check, interpolation, report
GravityMain ==
    /\ epc = "main"
    /\ eout' = GravityMainResult(eargs)
    /\ eargs' = [eargs EXCEPT !.runnings = SortDesc(eargs.runnings)]
    /\ epc' = "done"
    /\ UNCHANGED <<runVars, gravVars, unitVars>>

VariantNext == ParseArgs \/ Main \/ GravityParseArgs \/ GravityMain

SpecVariants == VariantInit /\ [][VariantNext]_vars

(***************************************************************************)
(* Properties of runnings.py, checked under SpecRunnings.                  *)
(***************************************************************************)
MainRan == pc = "done" /\ out.stage = "main"
Validated == pc = "main" \/ MainRan
ValidateFailed == pc = "done" /\ out.stage = "validate"

\* the sugar each lot of the ordered list holds: gravity points x volume
LotSugar(w) == RMul(gravity_pts(w.gravity), w.volume)

\* sum of gravity_pts x used volume over a plan
PlanSugar(runnings, volumes) ==
    SumSeq([i \in 1..Len(volumes) |-> RMul(gravity_pts(runnings[i].gravity), volumes[i])])

\* the smallest k in 0..n with total_sugars[k] >= needed_sugar (total_sugars[0] = 0)
SmallestK(total_sugars, needed_sugar) ==
    CHOOSE k \in 0..(Len(total_sugars) - 1) :
        /\ RLe(needed_sugar, total_sugars[k + 1])
        /\ \A j \in 0..(k - 1) : RLt(total_sugars[j + 1], needed_sugar)

\* the lots the claims about the plan are stated for: no negative volume and no
\* negative gravity points
NonNegativeLots ==
    \A i \in 1..Len(out.runnings) :
        /\ RLe(Zero, out.runnings[i].volume)
        /\ RLe(Zero, gravity_pts(out.runnings[i].gravity))

\* C1 (as claimed): for lots with non-negative volumes and gravity points, whenever the feasibility check passes and main prints a
\* plan, the plan is lots 0..k-2 at full volume and a share of lot k-1 between
\* 0 and its volume, k the smallest index with total_sugars[k] >= needed_sugar
\* (k = 0 when needed_sugar = 0: nothing is drawn), and the plan's sugar
\* equals needed_sugar.
C1_PlanMeetsNeededSugar ==
    (MainRan /\ out.outcome = "plan" /\ NonNegativeLots) =>
        LET k == SmallestK(out.total_sugars, out.needed_sugar)
        IN  /\ Len(out.volumes) = k
            /\ \A i \in 1..(k - 1) : out.volumes[i] = out.runnings[i].volume
            /\ k >= 1 => /\ RLe(Zero, out.volumes[k])
                         /\ RLe(out.volumes[k], out.runnings[k].volume)
            /\ PlanSugar(out.runnings, out.volumes) = out.needed_sugar

\* C1, the part of the claim the code meets: the same statement for k >= 1,
\* that is for needed_sugar > 0.
C1_PlanMeetsPositiveNeed ==
    (MainRan /\ out.outcome = "plan" /\ NonNegativeLots
             /\ RLt(Zero, out.needed_sugar)) =>
        LET k == SmallestK(out.total_sugars, out.needed_sugar)
        IN  /\ k >= 1
            /\ Len(out.volumes) = k
            /\ \A i \in 1..(k - 1) : out.volumes[i] = out.runnings[i].volume
            /\ RLe(Zero, out.volumes[k])
            /\ RLe(out.volumes[k], out.runnings[k].volume)
            /\ PlanSugar(out.runnings, out.volumes) = out.needed_sugar

\* C2 (as claimed): main reports "not enough sugar" exactly when
\* total_sugars[n] < needed_sugar, with batch size total_sugars[n] / target
\* gravity points; in every other case it ends with a plan or with the
\* boil-time (capacity) report.
C2_InfeasibleExactly ==
    MainRan =>
        LET total == out.total_sugars[Len(out.total_sugars)]
            short == RLt(total, out.needed_sugar)
        IN  /\ (out.outcome = "not enough sugar") <=> short
            /\ out.outcome = "not enough sugar" =>
                   /\ gravity_pts(args.target_OG) # Zero
                   /\ out.batch_size = RDiv(total, gravity_pts(args.target_OG))
            /\ ~short => out.outcome \in {"plan", "boil time"}

\* C2, the part of the claim the code meets: whenever main ends without an
\* arithmetic error, it reports infeasibility exactly when the total is short,
\* with the batch size the claim names.
C2_InfeasibleWhenChecked ==
    (MainRan /\ out.outcome # "ZeroDivisionError") =>
        LET total == out.total_sugars[Len(out.total_sugars)]
        IN  /\ (out.outcome = "not enough sugar") <=> RLt(total, out.needed_sugar)
            /\ out.outcome = "not enough sugar" =>
                   out.batch_size = RDiv(total, gravity_pts(args.target_OG))

\* C3 (as claimed): whenever main reports a top-off volume, it is
\* preboil_volume minus the summed volumes of the plan and it is not negative,
\* for every input that passes validation and the feasibility check.
C3_TopoffNotNegative ==
    (MainRan /\ out.outcome = "plan") =>
        /\ out.topoff_water = RSub(args.preboil_volume, SumSeq(out.volumes))
        /\ RLe(Zero, out.topoff_water)

\* C3, the part of the claim the code meets: the same when sugar is needed, so
\* that the crossing lot is a lot of the list (k >= 1) and the volume the
\* capacity test looked at is the volume of the plan.
C3_TopoffNotNegativeWhenDrawn ==
    (MainRan /\ out.outcome = "plan" /\ RLt(Zero, out.needed_sugar)) =>
        /\ out.topoff_water = RSub(args.preboil_volume, SumSeq(out.volumes))
        /\ out.running_volume = SumSeq(out.volumes)
        /\ RLe(Zero, out.topoff_water)

\* C4 (as claimed): whenever the planner's drawn volume exceeds preboil_volume,
\* main ends with the boil-time report, extra_boil = (drawn - preboil) /
\* boiloff_rate x 60 is strictly positive and new_boil = boil_duration +
\* extra_boil, whatever the boil-off rate.
C4_BoilTimeReport ==
    (MainRan /\ "running_volume" \in DOMAIN out
             /\ RLt(args.preboil_volume, out.running_volume)) =>
        /\ out.outcome = "boil time"
        /\ args.boiloff_rate # Zero
        /\ out.extra_boil =
               RMul(RDiv(RSub(out.running_volume, args.preboil_volume), args.boiloff_rate),
                    R(60))
        /\ RLt(Zero, out.extra_boil)
        /\ out.new_boil = RAdd(args.boil_duration, out.extra_boil)

\* C4, the part of the claim the code meets: the same for a positive rate.
C4_BoilTimeReportPositiveRate ==
    (MainRan /\ "running_volume" \in DOMAIN out
             /\ RLt(args.preboil_volume, out.running_volume)
             /\ RLt(Zero, args.boiloff_rate)) =>
        /\ out.outcome = "boil time"
        /\ RLt(Zero, out.extra_boil)
        /\ out.new_boil = RAdd(args.boil_duration, out.extra_boil)

\* C5 (as claimed): validate fails exactly when neither volume was supplied, or
\* both were supplied (zero included) and disagree; otherwise it returns with
\* both volumes set and final = (preboil - boiloff) x shrinkage_factor.
ModelFinal(preboil_volume, a) ==
    RMul(RSub(preboil_volume, RDiv(RMul(a.boiloff_rate, a.boil_duration), R(60))),
         RSub(One, RDiv(a.shrinkage_pct, R(100))))

C5_ValidateContract ==
    (pc # "parse_args") =>
        LET neither == given.preboil_volume = None /\ given.final_volume = None
            both == given.preboil_volume # None /\ given.final_volume # None
            disagree == both /\ ModelFinal(given.preboil_volume, given) # given.final_volume
        IN  /\ ValidateFailed <=> (neither \/ disagree)
            /\ Validated =>
                   /\ args.preboil_volume # None
                   /\ args.final_volume # None
                   /\ args.final_volume = ModelFinal(args.preboil_volume, args)

\* C5, the part of the claim the code meets: with the volumes that were
\* supplied being non-zero and the shrinkage below 100%.
C5_ValidateContractNonZero ==
    (pc # "parse_args" /\ given.preboil_volume # Zero /\ given.final_volume # Zero
                       /\ given.shrinkage_pct # R(100)) =>
        LET neither == given.preboil_volume = None /\ given.final_volume = None
            both == given.preboil_volume # None /\ given.final_volume # None
            disagree == both /\ ModelFinal(given.preboil_volume, given) # given.final_volume
        IN  /\ ValidateFailed <=> (neither \/ disagree)
            /\ Validated =>
                   /\ args.preboil_volume # None
                   /\ args.final_volume # None
                   /\ args.final_volume = ModelFinal(args.preboil_volume, args)

LastSugarLot(runnings) ==
    LET holding == {i \in 1..Len(runnings) : LotSugar(runnings[i]) # Zero}
    IN  IF holding = {} THEN 0 ELSE CHOOSE i \in holding : \A j \in holding : j <= i

C6_Witness ==
    /\ MainRan /\ out.outcome = "plan"
    /\ out.total_sugars[Len(out.total_sugars)] = out.needed_sugar
    /\ Len(out.runnings) = 2
    /\ LotSugar(out.runnings[1]) # Zero
    /\ LotSugar(out.runnings[2]) # Zero
    /\ out.volumes = <<out.runnings[1].volume, out.runnings[2].volume>>

TextDone == gpc = "done" /\ gin.op = "from_text"
TextAccepted == TextDone /\ gout.error = ""

\* the gravity points the number of the text yields when marked 'c'
RawPoints == gravity_pts(from_text(gout.quantity \o <<"c">>, "u").gravity)

\* C7 (as claimed): for every accepted text, mode 'u' gives raw_points / 1.04
\* and mode 'c' gives raw_points, raw_points being the points of the same
\* number marked 'c'.
C7_CorrectionDividesPoints ==
    TextAccepted =>
        /\ gout.correction = "u" =>
               gravity_pts(gout.gravity) = RDiv(RawPoints, <<26, 25>>)
        /\ gout.correction = "c" => gravity_pts(gout.gravity) = RawPoints

\* C7, the part of the claim the code meets: the same, unless raw_points / 1.04
\* lies strictly between 1 and 1.2.
C7_CorrectionOutsideWindow ==
    (TextAccepted /\ ~InSgWindow(RDiv(RawPoints, <<26, 25>>))) =>
        /\ gout.correction = "u" =>
               gravity_pts(gout.gravity) = RDiv(RawPoints, <<26, 25>>)
        /\ gout.correction = "c" => gravity_pts(gout.gravity) = RawPoints

\* C8 (as claimed): from_sg(sg).specific_gravity = sg for every sg outside the
\* open interval (1, 1.2).
C8_RoundTripOutsideWindow ==
    (gpc = "done" /\ gin.op = "from_sg"
        /\ ~(RLt(One, gin.num) /\ RLt(gin.num, <<6, 5>>))) =>
        gout.gravity = gin.num

\* C8 (amended): from_sg(sg).specific_gravity = sg for every sg strictly
\* inside (1, 1.2); for every other sg it is 1 + sg / 1000.
C8_RoundTripInsideWindow ==
    (gpc = "done" /\ gin.op = "from_sg") =>
        IF RLt(One, gin.num) /\ RLt(gin.num, <<6, 5>>)
        THEN gout.gravity = gin.num
        ELSE gout.gravity = RAdd(One, RDiv(gin.num, R(1000)))

C8_Witness ==
    /\ gpc = "done" /\ gin.op = "from_sg"
    /\ gin.num = <<21, 20>>
    /\ gout.gravity = <<21, 20>>

\* the grammar of the claim: digits, optionally "." and digits, optionally one
\* of c, u in either case
IsDecimalNumber(t) ==
    \E w \in 1..Len(t) :
        /\ AllDigits(SubSeq(t, 1, w))
        /\ \/ w = Len(t)
           \/ /\ Len(t) >= w + 2
              /\ t[w + 1] = "."
              /\ AllDigits(SubSeq(t, w + 2, Len(t)))

NumberOf(t) ==
    IF t # <<>> /\ t[Len(t)] \in {"c", "u", "C", "U"} THEN SubSeq(t, 1, Len(t) - 1) ELSE t

\* C9 (as claimed): from_text accepts a text exactly when it is a decimal number
\* optionally followed by one c or u (either case); accepted numbers below 1.5
\* are read as specific gravity, the others as Brix.
C9_AcceptsDecimalNumbers ==
    TextDone =>
        /\ (gout.error = "") <=> IsDecimalNumber(NumberOf(gin.text))
        /\ gout.error = "" =>
               LET q == Float(NumberOf(gin.text))
                   read == IF RLt(q, <<3, 2>>) THEN from_sg(q) ELSE from_brix(q)
               IN  gout.gravity \in {read, from_sg(corrected(gravity_pts(read)))}

\* C9, the part of the claim the code meets: a decimal number with one integer
\* digit, optionally followed by one c or u, is accepted.
C9_AcceptsOneDigitNumbers ==
    (TextDone /\ IsDecimalNumber(NumberOf(gin.text)) /\ gin.text[1] # "."
              /\ (Len(gin.text) = 1 \/ ~IsDigit(gin.text[2]))) =>
        gout.error = ""

(***************************************************************************)
(* Properties of Mass and Volume, checked under SpecUnits.                 *)
(***************************************************************************)
\* the magnitude the tokens of the text add up to
TokenSum(cls, tokens) ==
    MSum([j \in 1..Len(tokens) |-> of(cls, Float(tokens[j][1]), UnitOf(cls, tokens[j][2]))])

BothRanMain ==
    /\ pc = "done" /\ out.stage = "main"
    /\ epc = "done" /\ eout.stage = "main"
    /\ ~(out.outcome = "ZeroDivisionError" /\ out.at = "preboil_gravity")

\* runnings.py stopped at its capacity test, which gravity.py does not have
CapacityStop ==
    \/ out.outcome = "boil time"
    \/ out.outcome = "ZeroDivisionError" /\ out.at = "extra_boil"

InfeasibleLater ==
    \/ out.outcome = "not enough sugar"
    \/ out.outcome = "ZeroDivisionError" /\ out.at = "batch_size"

InfeasibleEarlier ==
    \/ eout.outcome = "ValueError: below target gravity"
    \/ eout.outcome = "ZeroDivisionError" /\ eout.at = "max possible gravity"

\* C11 (as claimed): on the same lots, target, boil-off and volumes, with
\* shrinkage_pct = 0 and sorting enabled, gravity.py and runnings.py reach the
\* same feasible / infeasible verdict, and when feasible both print the same
\* sequence of non-zero per-lot volumes, also when a prefix sum of sugar equals
\* the needed sugar exactly.  Stated for lots with non-negative volumes and
\* gravity points and a positive need of sugar; runs that runnings.py ends at
\* its capacity test, which gravity.py does not have, are left aside, and two
\* runs that both end in an uncaught error count as agreeing.
C11_VariantsAgree ==
    (BothRanMain /\ ~CapacityStop /\ NonNegativeLots /\ RLt(Zero, out.needed_sugar)) =>
        /\ InfeasibleLater <=> InfeasibleEarlier
        /\ ~InfeasibleLater =>
               /\ out.outcome = "plan" <=> eout.outcome = "plan"
               /\ out.outcome = "plan" => NonZero(out.volumes) = eout.shown

\* no number gravity.py hands to Gravity.from_sg lies strictly between 1 and 1.2
OutsideSgWindow ==
    /\ ~InSgWindow(RDiv(out.needed_sugar, args.preboil_volume))
    /\ \A i \in 1..Len(out.total_sugars) :
           ~InSgWindow(RDiv(out.total_sugars[i], args.preboil_volume))

\* C11, the part of the claim the code meets: the verdicts agree whenever no
\* number lies in the window of from_sg, and the printed volumes agree when
\* moreover sugar is needed and the total sugar is strictly above the need.
C11_VariantsAgreeAwayFromTheEdges ==
    (BothRanMain /\ ~CapacityStop /\ NonNegativeLots /\ OutsideSgWindow
                 /\ RLt(Zero, args.preboil_volume)) =>
        /\ InfeasibleLater <=> InfeasibleEarlier
        /\ (/\ RLt(Zero, out.needed_sugar)
            /\ RLt(out.needed_sugar, out.total_sugars[Len(out.total_sugars)])) =>
               /\ out.outcome = "plan"
               /\ eout.outcome = "plan"
               /\ NonZero(out.volumes) = eout.shown

====
